---- MODULE Spec2Model ----
(***************************************************************************)
(* Conservation metrics over genomic intervals: the Score Fetcher          *)
(* (ConservationTracker), the Metric Calculator (ConservationAnalyzer),    *)
(* the scored-BED writer (BEDHandler.write_scored_bed) and the name        *)
(* deduplicator (make_names_unique).                                       *)
(*                                                                         *)
(* Floats are modelled as exact rationals in lowest terms plus a NaN       *)
(* value; strings that the code inspects or builds character by character  *)
(* (chromosome names, BED lines) are sequences of one-character strings.   *)
(***************************************************************************)
EXTENDS Integers, Sequences, FiniteSets, TLC

VARIABLES
    \* ConservationAnalyzer.window_size
    window_size,
    \* _analyze_score_array / _get_longest_positive_run called on one array
    scores, prefix, array_metrics, max_run, a_pc,
    \* calculate_metrics called on one bundle
    phylocsf_scores, phylop_scores, metrics, todo, m_pc,
    \* ConservationTracker: the loaded frame tracks, one get_conservation_scores
    \* call, and what the Track Store saw of it
    phylocsf_tracks, chrom, start, end, strand, f_todo, queries, faultAt, raised, f_pc,
    \* make_names_unique: the input file, the loop position, the counters,
    \* the buffered lines and the output file
    bed_file, d_idx, name_counts, lines, output_file, d_pc,
    \* write_scored_bed: the data frame, the rows written and the outcome
    df, bed_df, w_pc

avars == <<scores, prefix, array_metrics, max_run, a_pc>>
mvars == <<phylocsf_scores, phylop_scores, metrics, todo, m_pc>>
fvars == <<phylocsf_tracks, chrom, start, end, strand, f_todo, queries, faultAt, raised, f_pc>>
dvars == <<bed_file, d_idx, name_counts, lines, output_file, d_pc>>
wvars == <<df, bed_df, w_pc>>
vars == <<window_size, avars, mvars, fvars, dvars, wvars>>

(***************************************************************************)
(* Bounds of the model.                                                    *)
(***************************************************************************)
MaxLen == 4
MaxWindow == 3
MaxBundleLen == 1
MaxEnd == 3
MaxFaults == 1
MaxRecords == 3
MaxRows == 3

(***************************************************************************)
(* Floats: a NaN, or the rational n/d in lowest terms with d > 0.          *)
(***************************************************************************)
NaN == [nan |-> TRUE, n |-> 0, d |-> 1]

Abs(i) == IF i < 0 THEN -i ELSE i

RECURSIVE Gcd(_, _)
Gcd(a, b) == IF b = 0 THEN a ELSE Gcd(b, a % b)

Rat(num, den) ==
    LET g == Gcd(Abs(num), den)
    IN  [nan |-> FALSE, n |-> num \div g, d |-> den \div g]

F(i) == Rat(i, 1)

isnan(x) == x.nan

\* IEEE comparison: any comparison with a NaN is false
Gt(x, y) == ~x.nan /\ ~y.nan /\ x.n * y.d > y.n * x.d

Add(x, y) == IF x.nan \/ y.nan THEN NaN ELSE Rat(x.n * y.d + y.n * x.d, x.d * y.d)

Sub(x, y) == IF x.nan \/ y.nan THEN NaN ELSE Rat(x.n * y.d - y.n * x.d, x.d * y.d)

\* x * (num/den) for integers num, den > 0
Scale(x, num, den) == IF x.nan THEN NaN ELSE Rat(x.n * num, x.d * den)

RECURSIVE Sum(_)
Sum(s) == IF Len(s) = 0 THEN F(0) ELSE Add(Head(s), Sum(Tail(s)))

NonNan(s) == SelectSeq(s, LAMBDA x : ~isnan(x))

RECURSIVE Insert(_, _)
Insert(x, s) ==
    IF Len(s) = 0 THEN <<x>>
    ELSE IF Gt(x, Head(s)) THEN <<Head(s)>> \o Insert(x, Tail(s))
    ELSE <<x>> \o s

RECURSIVE Sort(_)
Sort(s) == IF Len(s) = 0 THEN <<>> ELSE Insert(Head(s), Sort(Tail(s)))

Min2(a, b) == IF a < b THEN a ELSE b

(***************************************************************************)
(* numpy's nan-aware reductions.  On an all-NaN (or empty) slice they      *)
(* warn and return NaN.                                                    *)
(***************************************************************************)
nanmean(s) ==
    LET v == NonNan(s)
    IN  IF Len(v) = 0 THEN NaN ELSE Scale(Sum(v), 1, Len(v))

RECURSIVE MaxOf(_)
MaxOf(v) ==
    IF Len(v) = 1 THEN v[1]
    ELSE LET m == MaxOf(Tail(v)) IN IF Gt(m, Head(v)) THEN m ELSE Head(v)

nanmax(s) ==
    LET v == NonNan(s)
    IN  IF Len(v) = 0 THEN NaN ELSE MaxOf(v)

nanmedian(s) ==
    LET v == Sort(NonNan(s))
        k == Len(v)
    IN  IF k = 0 THEN NaN
        ELSE IF k % 2 = 1 THEN v[(k + 1) \div 2]
        ELSE Scale(Add(v[k \div 2], v[k \div 2 + 1]), 1, 2)

\* linear interpolation between order statistics at position q/100 * (k-1)
nanpercentile(s, q) ==
    LET v == Sort(NonNan(s))
        k == Len(v)
        pos == q * (k - 1)
        lo == pos \div 100 + 1
        hi == Min2(lo + 1, k)
    IN  IF k = 0 THEN NaN
        ELSE Add(v[lo], Scale(Sub(v[hi], v[lo]), pos % 100, 100))

(***************************************************************************)
(* Python's builtin max over a non-empty list: the first item is the       *)
(* running result and a later item replaces it only when item > result.    *)
(***************************************************************************)
RECURSIVE PyMaxFrom(_, _)
PyMaxFrom(result, rest) ==
    IF Len(rest) = 0 THEN result
    ELSE PyMaxFrom(IF Gt(Head(rest), result) THEN Head(rest) ELSE result, Tail(rest))

max(items) == PyMaxFrom(Head(items), Tail(items))

(***************************************************************************)
(* ConservationAnalyzer                                                    *)
(***************************************************************************)
None == [present |-> FALSE, arr |-> <<>>]
Some(a) == [present |-> TRUE, arr |-> a]

StartLen == 15
Q75 == 75

_get_window_scores(s, w) ==
    IF Len(s) < w THEN <<nanmean(s)>>
    ELSE [i \in 1..(Len(s) - w + 1) |-> nanmean(SubSeq(s, i, i + w - 1))]

RECURSIVE LongestRunScan(_, _, _)
LongestRunScan(s, current_run, best) ==
    IF Len(s) = 0 THEN best
    ELSE IF ~isnan(Head(s)) /\ Gt(Head(s), F(0))
         THEN LongestRunScan(Tail(s), current_run + 1,
                             IF current_run + 1 > best THEN current_run + 1 ELSE best)
         ELSE LongestRunScan(Tail(s), 0, best)

\* a slip of the comparison: score >= 0 instead of score > 0
RECURSIVE LongestRunScanGe(_, _, _)
LongestRunScanGe(s, current_run, best) ==
    IF Len(s) = 0 THEN best
    ELSE IF ~isnan(Head(s)) /\ ~Gt(F(0), Head(s))
         THEN LongestRunScanGe(Tail(s), current_run + 1,
                               IF current_run + 1 > best THEN current_run + 1 ELSE best)
         ELSE LongestRunScanGe(Tail(s), 0, best)

LongestRunCountingZero(s) == LongestRunScanGe(s, 0, 0)

_get_longest_positive_run(s) == LongestRunScan(s, 0, 0)

\* a slip: the positive-run entry is never added
ArrayMetricsWithoutRun(s, pre, w) ==
    LET window_scores == _get_window_scores(s, w)
    IN  (pre \o "_mean") :> nanmean(s)
        @@ (pre \o "_median") :> nanmedian(s)
        @@ (pre \o "_max") :> nanmax(s)
        @@ (pre \o "_q75") :> nanpercentile(s, Q75)
        @@ (pre \o "_start") :> nanmean(SubSeq(s, 1, Min2(Len(s), StartLen)))
        @@ (pre \o "_max_window") :>
               (IF Len(window_scores) > 0 THEN max(window_scores) ELSE NaN)

\* the metrics dict built for a non-empty array
ArrayMetrics(s, pre, w) ==
    LET window_scores == _get_window_scores(s, w)
    IN  (pre \o "_mean") :> nanmean(s)
        @@ (pre \o "_median") :> nanmedian(s)
        @@ (pre \o "_max") :> nanmax(s)
        @@ (pre \o "_q75") :> nanpercentile(s, Q75)
        @@ (pre \o "_start") :> nanmean(SubSeq(s, 1, Min2(Len(s), StartLen)))
        @@ (pre \o "_max_window") :>
               (IF Len(window_scores) > 0 THEN max(window_scores) ELSE NaN)
        @@ (pre \o "_longest_positive_run") :> _get_longest_positive_run(s)

\* a slip of the guard: only None is turned away, an empty array is analysed
AnalyzeEmptyUnguarded(sc, pre, w) ==
    IF ~sc.present THEN <<>> ELSE ArrayMetrics(sc.arr, pre, w)

_analyze_score_array(sc, pre, w) ==
    IF ~sc.present \/ Len(sc.arr) = 0 THEN <<>> ELSE ArrayMetrics(sc.arr, pre, w)

\* dict.update: the entries of b are added to a, replacing equal keys
update(a, b) == b @@ a

FramePrefix(frame) == "phylocsf_frame" \o ToString(frame)

(***************************************************************************)
(* Inputs of the per-array analysis.                                       *)
(***************************************************************************)
ScoreVals == {NaN} \cup {F(i) : i \in -1..2}

RECURSIVE SeqsUpTo(_, _)
SeqsUpTo(S, k) ==
    IF k = 0 THEN {<<>>}
    ELSE LET shorter == SeqsUpTo(S, k - 1)
         IN  shorter \cup {Append(s, x) : s \in {t \in shorter : Len(t) = k - 1}, x \in S}

RunExample == <<F(1), F(2), F(-1), F(3), F(4), F(5), F(-1)>>

ScoreArrays == SeqsUpTo(ScoreVals, MaxLen) \cup {RunExample}

IdleAnalyze ==
    /\ scores = <<>>
    /\ prefix = ""
    /\ array_metrics = <<>>
    /\ max_run = 0
    /\ a_pc = "idle"

IdleMetrics ==
    /\ phylocsf_scores = <<>>
    /\ phylop_scores = None
    /\ metrics = <<>>
    /\ todo = <<>>
    /\ m_pc = "idle"

IdleFetch ==
    /\ phylocsf_tracks = {}
    /\ chrom = <<>>
    /\ start = 0
    /\ end = 0
    /\ strand = "+"
    /\ f_todo = <<>>
    /\ queries = <<>>
    /\ faultAt = <<>>
    /\ raised = FALSE
    /\ f_pc = "idle"

IdleDedup ==
    /\ bed_file = <<>>
    /\ d_idx = 0
    /\ name_counts = <<>>
    /\ lines = <<>>
    /\ output_file = <<>>
    /\ d_pc = "idle"

IdleWrite ==
    /\ df = <<>>
    /\ bed_df = <<>>
    /\ w_pc = "idle"

InitAnalyze ==
    /\ IdleMetrics
    /\ IdleFetch
    /\ IdleDedup
    /\ IdleWrite
    /\ scores \in ScoreArrays
    /\ window_size \in 1..MaxWindow
    /\ prefix \in {"phylop", "phylocsf_frame1"}
    /\ array_metrics = <<>>
    /\ max_run = 0
    /\ a_pc = "call"

AnalyzeScoreArray ==
    /\ a_pc = "call"
    /\ array_metrics' = _analyze_score_array(Some(scores), prefix, window_size)
    /\ a_pc' = "done"
    /\ UNCHANGED <<scores, window_size, prefix, max_run, mvars, fvars, dvars, wvars>>

GetLongestPositiveRun ==
    /\ a_pc = "call"
    /\ max_run' = _get_longest_positive_run(scores)
    /\ a_pc' = "run_done"
    /\ UNCHANGED <<scores, window_size, prefix, array_metrics, mvars, fvars, dvars, wvars>>

NextAnalyze == AnalyzeScoreArray \/ GetLongestPositiveRun

SpecAnalyze == InitAnalyze /\ [][NextAnalyze]_vars

(***************************************************************************)
(* calculate_metrics on one bundle: the frames of the dict in key order,   *)
(* then the base-level array.                                              *)
(***************************************************************************)
BundleVals == {NaN, F(1)}
BundleArrays == SeqsUpTo(BundleVals, MaxBundleLen)
Frames == {1, 2, 3}

RECURSIVE Ascending(_)
Ascending(S) ==
    IF S = {} THEN <<>>
    ELSE LET lo == CHOOSE x \in S : \A y \in S : x <= y
         IN  <<lo>> \o Ascending(S \ {lo})

InitMetrics ==
    /\ IdleAnalyze
    /\ IdleFetch
    /\ IdleDedup
    /\ IdleWrite
    /\ window_size \in 1..MaxWindow
    /\ \E present \in SUBSET Frames : phylocsf_scores \in [present -> BundleArrays]
    /\ phylop_scores \in {None} \cup {Some(a) : a \in BundleArrays}
    /\ metrics = <<>>
    /\ todo = Ascending(DOMAIN phylocsf_scores)
    /\ m_pc = "frames"

CalcFrame ==
    /\ m_pc = "frames"
    /\ todo # <<>>
    /\ LET frame == Head(todo)
           frame_metrics == _analyze_score_array(Some(phylocsf_scores[frame]),
                                                 FramePrefix(frame), window_size)
       IN  metrics' = update(metrics, frame_metrics)
    /\ todo' = Tail(todo)
    /\ UNCHANGED <<window_size, avars, fvars, dvars, wvars, phylocsf_scores, phylop_scores, m_pc>>

CalcPhylop ==
    /\ m_pc = "frames"
    /\ todo = <<>>
    /\ metrics' = IF phylop_scores.present
                  THEN update(metrics, _analyze_score_array(phylop_scores, "phylop", window_size))
                  ELSE metrics
    /\ m_pc' = "done"
    /\ UNCHANGED <<window_size, avars, fvars, dvars, wvars, phylocsf_scores, phylop_scores, todo>>

NextMetrics == CalcFrame \/ CalcPhylop

SpecMetrics == InitMetrics /\ [][NextMetrics]_vars

(***************************************************************************)
(* The Track Store (pyBigWig files): each track declares chromosomes with  *)
(* their lengths and holds one value per base, NaN where nothing is        *)
(* recorded.  Names are character sequences.                               *)
(***************************************************************************)
Strands == {"+", "-"}
TrackKey(strnd, frame) == strnd \o ToString(frame)
TrackKeys == {TrackKey(sd, fr) : sd \in Strands, fr \in Frames}
AllTracks == TrackKeys \cup {"phylop"}

chr == <<"c", "h", "r">>
chr1 == chr \o <<"1">>
chr2 == chr \o <<"2">>

chroms(track) ==
    CASE track = "+1" -> (chr1 :> 2)
      [] track = "+2" -> (chr1 :> 3)
      [] track = "+3" -> (chr2 :> 3)
      [] track = "-1" -> (chr1 :> 3 @@ chr2 :> 2)
      [] track = "-2" -> (<<"1">> :> 3 @@ chr2 :> 3)
      [] track = "-3" -> (chr1 :> 2)
      [] track = "phylop" -> (chr1 :> 3 @@ chr2 :> 2)

TrackNumber(track) ==
    CASE track = "+1" -> 1 [] track = "+2" -> 2 [] track = "+3" -> 3
      [] track = "-1" -> 4 [] track = "-2" -> 5 [] track = "-3" -> 6
      [] track = "phylop" -> 7

values(track, c, s, e) ==
    [i \in 1..(e - s) |-> IF (s + i) % 2 = 0 THEN NaN ELSE F(TrackNumber(track))]

(***************************************************************************)
(* ConservationTracker._get_scores.  fault names the Track Store operation *)
(* that raises during this lookup, if it is reached.  The result carries   *)
(* the Store operations performed, the operation that raised (or "none")   *)
(* and whether an exception leaves the function.                           *)
(***************************************************************************)
FaultPoints == {"none", "chroms", "length", "values"}

startswith(str, pre) == Len(str) >= Len(pre) /\ SubSeq(str, 1, Len(pre)) = pre

Normalize(c) == IF ~startswith(c, chr) THEN chr \o c ELSE c

Lookup(sc, ops, raisedAt, exc) == [scores |-> sc, ops |-> ops, raisedAt |-> raisedAt, exc |-> exc]

\* the body of the try block
TryGetScores(bw_file, c0, s, e, fault) ==
    LET c == Normalize(c0) IN
    IF fault = "chroms" THEN Lookup(None, <<"chroms">>, "chroms", TRUE)
    ELSE IF c \notin DOMAIN chroms(bw_file) THEN Lookup(None, <<"chroms">>, "none", FALSE)
    ELSE IF fault = "length" THEN Lookup(None, <<"chroms", "length">>, "length", TRUE)
    ELSE IF s < 0 \/ e > chroms(bw_file)[c]
         THEN Lookup(None, <<"chroms", "length">>, "none", FALSE)
    ELSE IF fault = "values"
         THEN Lookup(None, <<"chroms", "length", "values">>, "values", TRUE)
    ELSE Lookup(Some(values(bw_file, c, s, e)), <<"chroms", "length", "values">>, "none", FALSE)

\* a slip: no except clause, a Store fault leaves the function
GetScoresUncaught(bw_file, c0, s, e, fault) == TryGetScores(bw_file, c0, s, e, fault)

\* a slip of the bound: end >= chrom_length is turned away
GetScoresEndExclusive(bw_file, c0, s, e, fault) ==
    LET c == Normalize(c0) IN
    IF fault = "chroms" THEN Lookup(None, <<"chroms">>, "chroms", FALSE)
    ELSE IF c \notin DOMAIN chroms(bw_file) THEN Lookup(None, <<"chroms">>, "none", FALSE)
    ELSE IF fault = "length" THEN Lookup(None, <<"chroms", "length">>, "length", FALSE)
    ELSE IF s < 0 \/ e >= chroms(bw_file)[c]
         THEN Lookup(None, <<"chroms", "length">>, "none", FALSE)
    ELSE IF fault = "values"
         THEN Lookup(None, <<"chroms", "length", "values">>, "values", FALSE)
    ELSE Lookup(Some(values(bw_file, c, s, e)), <<"chroms", "length", "values">>, "none", FALSE)

\* try ... except Exception: print the diagnostic, return None
_get_scores(bw_file, c0, s, e, fault) ==
    LET r == TryGetScores(bw_file, c0, s, e, fault)
    IN  IF r.exc THEN [r EXCEPT !.scores = None, !.exc = FALSE] ELSE r

(***************************************************************************)
(* get_conservation_scores: one step per frame of the loop, then the       *)
(* base-level lookup and the return.                                       *)
(***************************************************************************)
ChromNames == {<<"1">>, chr1, <<"2">>, chr2, <<"c", "h">>}

FaultCount == Cardinality({t \in AllTracks : faultAt[t] # "none"})

InitFetch ==
    /\ IdleAnalyze
    /\ IdleDedup
    /\ IdleWrite
    /\ window_size = 1
    /\ metrics = <<>> /\ todo = <<>> /\ m_pc = "idle"
    /\ phylocsf_tracks \in SUBSET TrackKeys
    /\ chrom \in ChromNames
    /\ start \in {-1, 0}
    /\ end \in 2..MaxEnd
    /\ strand \in Strands
    /\ phylocsf_scores = <<>>
    /\ phylop_scores = None
    /\ f_todo = <<1, 2, 3>>
    /\ queries = [t \in AllTracks |-> <<>>]
    /\ faultAt = [t \in AllTracks |-> "none"]
    /\ raised = FALSE
    /\ f_pc = "frames"

FetchFrame ==
    /\ f_pc = "frames"
    /\ f_todo # <<>>
    /\ LET frame == Head(f_todo)
           track_key == TrackKey(strand, frame)
       IN  IF track_key \in phylocsf_tracks
           THEN \E fault \in FaultPoints :
                  /\ fault # "none" => FaultCount < MaxFaults
                  /\ LET r == _get_scores(track_key, chrom, start, end, fault)
                     IN  /\ queries' = [queries EXCEPT ![track_key] = @ \o r.ops]
                         /\ faultAt' = [faultAt EXCEPT ![track_key] = r.raisedAt]
                         /\ raised' = r.exc
                         /\ f_pc' = IF r.exc THEN "raised" ELSE f_pc
                         /\ phylocsf_scores' =
                                IF ~r.exc /\ r.scores.present
                                THEN (frame :> r.scores.arr) @@ phylocsf_scores
                                ELSE phylocsf_scores
           ELSE UNCHANGED <<queries, faultAt, raised, f_pc, phylocsf_scores>>
    /\ f_todo' = Tail(f_todo)
    /\ UNCHANGED <<window_size, avars, dvars, wvars, phylop_scores, metrics, todo, m_pc,
                   phylocsf_tracks, chrom, start, end, strand>>

FetchPhylop ==
    /\ f_pc = "frames"
    /\ f_todo = <<>>
    /\ \E fault \in FaultPoints :
          /\ fault # "none" => FaultCount < MaxFaults
          /\ LET r == _get_scores("phylop", chrom, start, end, fault)
             IN  /\ queries' = [queries EXCEPT !["phylop"] = @ \o r.ops]
                 /\ faultAt' = [faultAt EXCEPT !["phylop"] = r.raisedAt]
                 /\ raised' = r.exc
                 /\ f_pc' = IF r.exc THEN "raised" ELSE "done"
                 /\ phylop_scores' = IF r.exc THEN phylop_scores ELSE r.scores
    /\ UNCHANGED <<window_size, avars, dvars, wvars, phylocsf_scores, metrics, todo, m_pc,
                   phylocsf_tracks, chrom, start, end, strand, f_todo>>

NextFetch == FetchFrame \/ FetchPhylop

SpecFetch == InitFetch /\ [][NextFetch]_vars

(***************************************************************************)
(* make_names_unique.  A line is a sequence of characters.                 *)
(***************************************************************************)
TAB == "\t"
NL == "\n"
Whitespace == {" ", TAB, NL, "\r"}

RECURSIVE lstrip(_)
lstrip(l) == IF Len(l) > 0 /\ Head(l) \in Whitespace THEN lstrip(Tail(l)) ELSE l

RECURSIVE rstrip(_)
rstrip(l) ==
    IF Len(l) > 0 /\ l[Len(l)] \in Whitespace THEN rstrip(SubSeq(l, 1, Len(l) - 1)) ELSE l

strip(l) == rstrip(lstrip(l))

\* str.split(sep): one more field than separators, empty fields kept
RECURSIVE SplitFrom(_, _, _)
SplitFrom(l, sep, fields) ==
    IF Len(l) = 0 THEN fields
    ELSE IF Head(l) = sep THEN SplitFrom(Tail(l), sep, Append(fields, <<>>))
    ELSE SplitFrom(Tail(l), sep,
                   [fields EXCEPT ![Len(fields)] = Append(@, Head(l))])

split(l, sep) == SplitFrom(l, sep, << <<>> >>)

RECURSIVE join(_, _)
join(sep, fields) ==
    IF Len(fields) = 0 THEN <<>>
    ELSE IF Len(fields) = 1 THEN fields[1]
    ELSE fields[1] \o <<sep>> \o join(sep, Tail(fields))

\* str(k) for k >= 0
RECURSIVE str(_)
str(k) == IF k < 10 THEN <<ToString(k)>> ELSE str(k \div 10) \o <<ToString(k % 10)>>

\* defaultdict(int)
Count(counts, name) == IF name \in DOMAIN counts THEN counts[name] ELSE 0

DupSuffix == <<"_", "d", "u", "p">>

\* a slip of the index: the suffix carries the occurrence number itself
ProcessLineOffByOne(line, counts) ==
    LET fields == split(strip(line), TAB) IN
    IF Len(fields) >= 4
    THEN LET name == fields[4]
             cnt == Count(counts, name) + 1
         IN  [counts |-> (name :> cnt) @@ counts,
              line |-> join(TAB, IF cnt > 1
                                 THEN [fields EXCEPT ![4] = name \o DupSuffix \o str(cnt)]
                                 ELSE fields)]
    ELSE [counts |-> counts, line |-> join(TAB, fields)]

\* the body of the read loop: the counters and the buffered line after it
ProcessLine(line, counts) ==
    LET fields == split(strip(line), TAB) IN
    IF Len(fields) >= 4
    THEN LET name == fields[4]
             cnt == Count(counts, name) + 1
         IN  [counts |-> (name :> cnt) @@ counts,
              line |-> join(TAB, IF cnt > 1
                                 THEN [fields EXCEPT ![4] = name \o DupSuffix \o str(cnt - 1)]
                                 ELSE fields)]
    ELSE [counts |-> counts, line |-> join(TAB, fields)]

Record(fields) == join(TAB, fields) \o <<NL>>

NameA == <<"a">>
NameB == <<"b">>
NameADup1 == NameA \o DupSuffix \o <<"1">>

BedLines ==
    { Record(<< <<"x">>, <<"1">>, <<"2">>, NameA >>),
      Record(<< <<"x">>, <<"1">>, <<"2">>, NameB >>),
      Record(<< <<"x">>, <<"1">>, <<"2">>, NameADup1 >>),
      Record(<< <<"x">>, <<"1">>, <<"2">>, NameA, <<"0">>, <<"+">> >>),
      Record(<< <<"x">>, <<"1">>, <<"2">>, NameA \o <<" ">> >>),
      Record(<< <<"x">>, <<"1">>, <<"2">> >>),
      <<NL>> }

DedupExample ==
    << Record(<< <<"x">>, <<"1">>, <<"2">>, NameA >>),
       Record(<< <<"x">>, <<"1">>, <<"2">>, NameB >>),
       Record(<< <<"x">>, <<"1">>, <<"2">>, NameA >>),
       Record(<< <<"x">>, <<"1">>, <<"2">>, NameA >>) >>

InitDedup ==
    /\ IdleAnalyze
    /\ window_size = 1
    /\ IdleMetrics
    /\ IdleFetch
    /\ IdleWrite
    /\ bed_file \in SeqsUpTo(BedLines, MaxRecords) \cup {DedupExample}
    /\ d_idx = 1
    /\ name_counts = <<>>
    /\ lines = <<>>
    /\ output_file = <<>>
    /\ d_pc = "read"

ReadLine ==
    /\ d_pc = "read"
    /\ d_idx <= Len(bed_file)
    /\ LET r == ProcessLine(bed_file[d_idx], name_counts)
       IN  /\ name_counts' = r.counts
           /\ lines' = Append(lines, r.line)
    /\ d_idx' = d_idx + 1
    /\ UNCHANGED <<window_size, avars, mvars, fvars, wvars, bed_file, output_file, d_pc>>

WriteLines ==
    /\ d_pc = "read"
    /\ d_idx > Len(bed_file)
    /\ output_file' = [i \in 1..Len(lines) |-> lines[i] \o <<NL>>]
    /\ d_pc' = "done"
    /\ UNCHANGED <<window_size, avars, mvars, fvars, wvars, bed_file, d_idx, name_counts, lines>>

NextDedup == ReadLine \/ WriteLines

SpecDedup == InitDedup /\ [][NextDedup]_vars

(***************************************************************************)
(* BEDHandler.write_scored_bed with the default score column and scale     *)
(* factor.  A cell of the written score column is an integer or null.      *)
(***************************************************************************)
ScaleFactor == 1000
ClipMax == 1000

Int64(v) == [null |-> FALSE, v |-> v]
Null == [null |-> TRUE, v |-> 0]

floor(x) == x.n \div x.d

clip(v, lo, hi) == IF v < lo THEN lo ELSE IF v > hi THEN hi ELSE v

RECURSIVE ColMin(_)
ColMin(col) ==
    IF Len(col) = 1 THEN col[1]
    ELSE LET m == ColMin(Tail(col)) IN IF Gt(m, Head(col)) THEN Head(col) ELSE m

RECURSIVE ColMax(_)
ColMax(col) ==
    IF Len(col) = 1 THEN col[1]
    ELSE LET m == ColMax(Tail(col)) IN IF Gt(Head(col), m) THEN Head(col) ELSE m

\* (x - min) / (max - min) * scale_factor; 0/0 is NaN
Rescale(x, lo, hi) ==
    IF Sub(hi, lo) = F(0) THEN NaN
    ELSE LET num == Sub(x, lo)
             den == Sub(hi, lo)
         IN  Rat(num.n * den.d * ScaleFactor, num.d * den.n)

\* .floor().cast(Int64).clip(0, 1000) of a finite value
ScoreCell(x, lo, hi) == Int64(clip(floor(Rescale(x, lo, hi)), 0, ClipMax))

BedScores == {F(10), F(20), F(30), Rat(25, 2)}

BedNames == <<"n1", "n2", "n3", "n4", "n5">>

InitWrite ==
    /\ IdleAnalyze
    /\ window_size = 1
    /\ IdleMetrics
    /\ IdleFetch
    /\ IdleDedup
    /\ \E col \in SeqsUpTo(BedScores, MaxRows) :
          df = [i \in 1..Len(col) |-> [name |-> BedNames[i], conservation_score |-> col[i]]]
    /\ bed_df = <<>>
    /\ w_pc = "call"

WriteScoredBed ==
    /\ w_pc = "call"
    /\ LET col == [i \in 1..Len(df) |-> df[i].conservation_score] IN
       IF Len(df) = 0
       THEN bed_df' = <<>> /\ w_pc' = "written"
       ELSE IF ColMax(col) = ColMin(col)
       THEN \* every cell is 0/0 = NaN: the cast to Int64 raises, or (older
            \* polars) yields null
            \/ bed_df' = <<>> /\ w_pc' = "error"
            \/ /\ bed_df' = [i \in 1..Len(df) |-> [name |-> df[i].name, score |-> Null]]
               /\ w_pc' = "written"
       ELSE /\ bed_df' = [i \in 1..Len(df) |->
                            [name |-> df[i].name,
                             score |-> ScoreCell(col[i], ColMin(col), ColMax(col))]]
            /\ w_pc' = "written"
    /\ UNCHANGED <<window_size, avars, mvars, fvars, dvars, df>>

NextWrite == WriteScoredBed

SpecWrite == InitWrite /\ [][NextWrite]_vars

(***************************************************************************)
(* Reference notions for the per-array claims.                             *)
(***************************************************************************)
\* the windows the scan covers: every offset 0..L-w, or the whole array when L < w
Windows(s, w) ==
    IF Len(s) < w THEN {s}
    ELSE {SubSeq(s, off + 1, off + w) : off \in 0..(Len(s) - w)}

DefinedWindowMeans(s, w) == {m \in {nanmean(win) : win \in Windows(s, w)} : ~isnan(m)}

\* the largest of the defined window means; undefined (NaN) when there is none
LargestWindowMean(s, w) ==
    LET D == DefinedWindowMeans(s, w)
    IN  IF D = {} THEN NaN ELSE CHOOSE m \in D : \A o \in D : ~Gt(o, m)

Positive(x) == ~x.nan /\ x.n > 0

\* lengths of the contiguous stretches of non-missing, strictly positive values
PositiveRunLengths(s) ==
    {p[2] - p[1] + 1 : p \in
        {q \in (1..Len(s)) \X (1..Len(s)) :
            q[1] <= q[2] /\ \A k \in q[1]..q[2] : Positive(s[k])}}

LongestPositiveRun(s) ==
    LET R == PositiveRunLengths(s) \cup {0}
    IN  CHOOSE r \in R : \A o \in R : o <= r

\* C1: for a non-empty array, max_window is the maximum of the nan-aware
\* means of the windows (all offsets 0..L-w when L >= w, the whole array
\* when L < w), missing window means being left out of the maximum.
C1_MaxWindowIsMaxOfWindowMeans ==
    (a_pc = "done" /\ Len(scores) > 0) =>
        array_metrics[prefix \o "_max_window"] = LargestWindowMean(scores, window_size)

\* C9: when L >= window_size and some window holds a non-missing value,
\* max_window is defined and is the largest defined window mean, wherever
\* the all-missing windows lie.
C9_MaxWindowDefinedWhateverTheOrder ==
    (a_pc = "done" /\ Len(scores) >= window_size
        /\ DefinedWindowMeans(scores, window_size) # {}) =>
        /\ ~isnan(array_metrics[prefix \o "_max_window"])
        /\ \A m \in DefinedWindowMeans(scores, window_size) :
              ~Gt(m, array_metrics[prefix \o "_max_window"])
        /\ array_metrics[prefix \o "_max_window"] \in DefinedWindowMeans(scores, window_size)

\* C2: _get_longest_positive_run returns the length of the longest contiguous
\* run of non-missing values > 0; it is 0 when no position qualifies (so for
\* an all-missing array), and [1,2,-1,3,4,5,-1] gives 3.
C2_LongestPositiveRun ==
    a_pc = "run_done" =>
        /\ max_run = LongestPositiveRun(scores)
        /\ (\A k \in 1..Len(scores) : ~Positive(scores[k])) => max_run = 0
        /\ scores = RunExample => max_run = 3

C2_Witness ==
    /\ a_pc = "run_done"
    /\ \E k \in 1..Len(scores) : scores[k] = F(0)
    /\ \E k \in 1..Len(scores) : isnan(scores[k])
    /\ max_run = 2

(***************************************************************************)
(* Reference notions for the bundle claims.                                *)
(***************************************************************************)
MetricNames ==
    {"mean", "median", "max", "q75", "start", "max_window", "longest_positive_run"}

KeysOf(pre) == {pre \o "_" \o name : name \in MetricNames}

FullyLoaded ==
    /\ DOMAIN phylocsf_scores = Frames
    /\ \A N \in Frames : Len(phylocsf_scores[N]) > 0
    /\ phylop_scores.present /\ Len(phylop_scores.arr) > 0

\* the prefixes of the arrays of the bundle that are present and non-empty
LivePrefixes ==
    {FramePrefix(N) : N \in {M \in DOMAIN phylocsf_scores : Len(phylocsf_scores[M]) > 0}}
    \cup (IF phylop_scores.present /\ Len(phylop_scores.arr) > 0 THEN {"phylop"} ELSE {})

\* C3 (as stated): a fully-loaded bundle (three non-empty frames and a
\* non-empty base-level array) gives exactly 3*6 + 6 = 24 metric keys.
C3_TwentyFourKeys ==
    (m_pc = "done" /\ FullyLoaded) => Cardinality(DOMAIN metrics) = 3 * 6 + 6

\* C3 (amended): a fully-loaded bundle gives exactly 3*7 + 7 = 28 metric
\* keys, the 7 named metrics for each of the four arrays.
C3_TwentyEightKeys ==
    (m_pc = "done" /\ FullyLoaded) =>
        /\ Cardinality(DOMAIN metrics) = 3 * 7 + 7
        /\ \A pre \in {FramePrefix(N) : N \in Frames} \cup {"phylop"} :
              Cardinality(KeysOf(pre) \cap DOMAIN metrics) = 7

C3_Witness == m_pc = "done" /\ FullyLoaded

\* C4: an absent frame, an empty frame array and an absent or empty
\* base-level array contribute no key with their prefix; the keys of the
\* result are those of the arrays that are present and non-empty.
C4_AbsentOrEmptyContributeNoKey ==
    m_pc = "done" =>
        /\ DOMAIN metrics = UNION {KeysOf(pre) : pre \in LivePrefixes}
        /\ \A N \in Frames :
              (N \notin DOMAIN phylocsf_scores \/ Len(phylocsf_scores[N]) = 0) =>
                  KeysOf(FramePrefix(N)) \cap DOMAIN metrics = {}
        /\ (~phylop_scores.present \/ Len(phylop_scores.arr) = 0) =>
              KeysOf("phylop") \cap DOMAIN metrics = {}

C4_Witness ==
    /\ m_pc = "done"
    /\ 1 \notin DOMAIN phylocsf_scores
    /\ 2 \in DOMAIN phylocsf_scores /\ Len(phylocsf_scores[2]) = 0
    /\ 3 \in DOMAIN phylocsf_scores /\ Len(phylocsf_scores[3]) > 0
    /\ phylop_scores.present /\ Len(phylop_scores.arr) = 0
    /\ DOMAIN metrics = KeysOf("phylocsf_frame3")

(***************************************************************************)
(* Reference notions for the Score Fetcher claims.                         *)
(***************************************************************************)
\* the name with the chr prefix added when it is missing
Prefixed(c) ==
    CHOOSE name \in {c, <<"c", "h", "r">> \o c} :
        /\ Len(name) >= 3 /\ name[1] = "c" /\ name[2] = "h" /\ name[3] = "r"
        /\ (Len(c) >= 3 /\ c[1] = "c" /\ c[2] = "h" /\ c[3] = "r") => name = c

Declared(t) == Prefixed(chrom) \in DOMAIN chroms(t)

InBounds(t) == start >= 0 /\ end <= chroms(t)[Prefixed(chrom)]

Available(t) == Declared(t) /\ InBounds(t) /\ faultAt[t] = "none"

\* what a lookup that meets no fault returns for track t
Expected(t) ==
    IF Declared(t) /\ InBounds(t)
    THEN Some([i \in 1..(end - start) |->
                 values(t, Prefixed(chrom), start, end)[i]])
    ELSE None

ResultOf(t) ==
    IF t = "phylop" THEN phylop_scores
    ELSE LET N == CHOOSE M \in Frames : TrackKey(strand, M) = t
         IN  IF N \in DOMAIN phylocsf_scores THEN Some(phylocsf_scores[N]) ELSE None

Consulted == ({TrackKey(strand, N) : N \in Frames} \cap phylocsf_tracks) \cup {"phylop"}

IsPrefixOf(a, b) == Len(a) <= Len(b) /\ SubSeq(b, 1, Len(a)) = a

\* C5: a fault of any Track Store operation on a track is caught in that
\* track's lookup and becomes 'unavailable': the call never raises, the
\* faulting track is queried no further, and the other tracks' lookups
\* still run and return what they return without the fault.
C5_FaultsAreContained ==
    /\ ~raised /\ f_pc # "raised"
    /\ \A t \in AllTracks :
          /\ IsPrefixOf(queries[t], <<"chroms", "length", "values">>)
          /\ faultAt[t] # "none" =>
                /\ queries[t][Len(queries[t])] = faultAt[t]
                /\ (t \in Consulted => ~ResultOf(t).present)
    /\ f_pc = "done" =>
          \A t \in Consulted :
              /\ queries[t] # <<>>
              /\ faultAt[t] = "none" => ResultOf(t) = Expected(t)

C5_Witness ==
    /\ f_pc = "done"
    /\ faultAt[TrackKey(strand, 1)] = "values"
    /\ 2 \in DOMAIN phylocsf_scores
    /\ phylop_scores.present

\* C6: frame N is a key of the result iff a track is loaded for
\* (strand, N), the chr-prefixed chromosome name is declared in it,
\* start >= 0, end <= the declared length and the retrieval does not fault;
\* tracks of the other strand are never consulted; the base-level result
\* follows the same rule whatever the strand.
C6_FramePresentIffAvailable ==
    f_pc = "done" =>
        /\ \A N \in Frames :
              N \in DOMAIN phylocsf_scores <=>
                  (TrackKey(strand, N) \in phylocsf_tracks /\ Available(TrackKey(strand, N)))
        /\ \A t \in AllTracks \ Consulted : queries[t] = <<>>
        /\ phylop_scores.present <=> Available("phylop")
        /\ \A N \in DOMAIN phylocsf_scores :
              Len(phylocsf_scores[N]) = end - start

C6_Witness ==
    /\ f_pc = "done"
    /\ chrom = <<"1">>
    /\ end = 3
    /\ phylocsf_tracks = TrackKeys
    /\ DOMAIN phylocsf_scores = {2}
    /\ phylop_scores.present
    /\ FaultCount = 0

(***************************************************************************)
(* Reference notions for the deduplication claims.  A record's fields are  *)
(* those the reader finds in its line; its name is the 4th.                *)
(***************************************************************************)
FieldsOf(l) == split(strip(l), TAB)

HasName(l) == Len(FieldsOf(l)) >= 4

NameOf(l) == FieldsOf(l)[4]

\* how many earlier records carry the same original name as record i
EarlierSame(i) ==
    Cardinality({j \in 1..(i - 1) :
        HasName(bed_file[j]) /\ NameOf(bed_file[j]) = NameOf(bed_file[i])})

NamesOf(file) == [i \in 1..Len(file) |-> IF HasName(file[i]) THEN NameOf(file[i]) ELSE <<>>]

C10_OutputNamesDistinct ==
    d_pc = "done" =>
        \A i, j \in 1..Len(output_file) :
            (i # j /\ HasName(bed_file[i]) /\ HasName(bed_file[j])) =>
                NameOf(output_file[i]) # NameOf(output_file[j])

(***************************************************************************)
(* Reference notions for the scored-BED claim.                             *)
(***************************************************************************)
\* C8: every written record carries an integer score in [0, 1000], equal to
\* floor((value - min) / (max - min) * 1000) clamped to [0, 1000] with min
\* and max over the whole column; [10, 20, 30] give [0, 500, 1000].
ColumnOf(frame) == {frame[i].conservation_score : i \in 1..Len(frame)}

Lowest(S) == CHOOSE x \in S : \A y \in S : ~Gt(x, y)

Highest(S) == CHOOSE x \in S : \A y \in S : ~Gt(y, x)

\* v = floor(1000 * (x - lo) / (hi - lo)) for lo < hi, stated without division
IsFloorOfRescaled(v, x, lo, hi) ==
    LET num == Sub(x, lo)
        den == Sub(hi, lo)
    IN  /\ v * num.d * den.n <= 1000 * num.n * den.d
        /\ 1000 * num.n * den.d < (v + 1) * num.d * den.n

C8_ScoresInRange ==
    w_pc # "call" =>
        /\ w_pc = "written"
        /\ Len(bed_df) = Len(df)
        /\ \A i \in 1..Len(bed_df) :
              /\ ~bed_df[i].score.null
              /\ bed_df[i].score.v \in 0..1000
              /\ Lowest(ColumnOf(df)) # Highest(ColumnOf(df)) =>
                    IsFloorOfRescaled(bed_df[i].score.v, df[i].conservation_score,
                                      Lowest(ColumnOf(df)), Highest(ColumnOf(df)))
        /\ [i \in 1..Len(df) |-> df[i].conservation_score] = <<F(10), F(20), F(30)>> =>
              [i \in 1..Len(bed_df) |-> bed_df[i].score.v] = <<0, 500, 1000>>

\* the part of C8 that the code meets: whenever the column holds two
\* different values, every record is written with the rescaled score
C8_NonDegenerateHolds ==
    (w_pc # "call" /\ Len(df) > 0 /\ Lowest(ColumnOf(df)) # Highest(ColumnOf(df))) =>
        /\ w_pc = "written"
        /\ Len(bed_df) = Len(df)
        /\ \A i \in 1..Len(bed_df) :
              /\ ~bed_df[i].score.null
              /\ bed_df[i].score.v \in 0..1000
              /\ IsFloorOfRescaled(bed_df[i].score.v, df[i].conservation_score,
                                   Lowest(ColumnOf(df)), Highest(ColumnOf(df)))
        /\ [i \in 1..Len(df) |-> df[i].conservation_score] = <<F(10), F(20), F(30)>> =>
              [i \in 1..Len(bed_df) |-> bed_df[i].score.v] = <<0, 500, 1000>>

====
